---- MODULE Spec2Model ----
(***************************************************************************)
(* Model of the ireland-carbon-viz data pipeline: the two synthetic series *)
(* generators (data/mock.ts and data/eirgrid.ts), the mix normaliser, the  *)
(* intensity calculator and the App component's generation passes.         *)
(*                                                                         *)
(* Numbers.  A JavaScript number holding a share is modelled in fixed      *)
(* point: the integer v stands for v / SCALE.  Products and quotients      *)
(* round towards minus infinity, so every arithmetic step is within one    *)
(* unit (1 / SCALE) of the real value.  Math.sin and Math.cos are a        *)
(* fixed-point series with an exact quadrant reduction, so that the sign   *)
(* of a sine is the sign of the real sine.                                 *)
(*                                                                         *)
(* Time.  A Date is a whole number of minutes since an epoch, read in a    *)
(* zone with a fixed offset (getHours and getMinutes never see a clock     *)
(* change); the seconds and milliseconds of "now" are the same for every   *)
(* sample of a series and are read by nothing.                             *)
(***************************************************************************)
EXTENDS Integers, Sequences, FiniteSets, TLC

VARIABLES
    range, now, ret,                    \* a direct call of a generator: its argument, the clock, its outcome
    prov,                               \* the provider argument of a direct call of generateProviderSpecificData
    raw, mix, ci, npc,                  \* a direct use of normalizeMix and computeIntensity
    dateRange, provider, data, loading, error,   \* App's useState cells
    effectDue, pending, result, apiRet  \* App's effect, its suspended passes, fetchData's local, fetchENTSOEData's promise

genVars  == <<range, now, ret, prov>>
normVars == <<raw, mix, ci, npc>>
appVars  == <<dateRange, provider, data, loading, error, effectDue, pending, result, apiRet>>
vars     == <<range, now, ret, prov, raw, mix, ci, npc,
              dateRange, provider, data, loading, error, effectDue, pending, result, apiRet>>

----------------------------------------------------------------------------
(* Bounds of the model *)

SCALE == 10000          \* fixed-point resolution: v stands for v / SCALE
MaxNowMinute == 29      \* the clock is read at BaseNow .. BaseNow + MaxNowMinute
MaxRaw == 2             \* a hand-constructed raw field is absent or in -1 .. MaxRaw
MaxAppNow == 1          \* the clock an App pass reads is in BaseNow .. BaseNow + MaxAppNow

----------------------------------------------------------------------------
(* Numbers *)

Frac(n, d) == (n * SCALE) \div d            \* the literal n / d
Mul(a, b) == (a * b) \div SCALE             \* a * b
Div(a, b) == (a * SCALE) \div b             \* a / b, b > 0
MathMax(a, b) == IF a >= b THEN a ELSE b
MathMin(a, b) == IF a <= b THEN a ELSE b
MathRound(x) == (2 * x + SCALE) \div (2 * SCALE)      \* nearest integer, halves up

HalfPi == (SCALE * 355) \div 226

\* sin((pi/2) * a / den) for 0 <= a <= den
SinQuarter(a, den) ==
    LET x  == (HalfPi * a) \div den
        x2 == Mul(x, x)
        t4 == SCALE - (x2 \div 72)
        t3 == SCALE - (Mul(x2, t4) \div 42)
        t2 == SCALE - (Mul(x2, t3) \div 20)
        t1 == SCALE - (Mul(x2, t2) \div 6)
    IN  MathMin(SCALE, Mul(x, t1))

\* Math.sin(2 * Math.PI * num / den), den > 0
MathSin(num, den) ==
    LET r == 4 * (num % den)
    IN  IF r <= den THEN SinQuarter(r, den)
        ELSE IF r <= 2 * den THEN SinQuarter(2 * den - r, den)
        ELSE IF r <= 3 * den THEN 0 - SinQuarter(r - 2 * den, den)
        ELSE 0 - SinQuarter(4 * den - r, den)

\* Math.cos(2 * Math.PI * num / den)
MathCos(num, den) == MathSin(4 * num + den, 4 * den)

----------------------------------------------------------------------------
(* Dates (date-fns and Date) *)

MinutesPerDay == 24 * 60
BaseNow == 8 * MinutesPerDay + 17 * 60 + 40  \* a reference instant, 17:40 on day 8
Nows == BaseNow .. (BaseNow + MaxNowMinute)

subHours(date, amount) == date - amount * 60
addMinutes(date, amount) == date + amount
getHours(t) == (t \div 60) % 24
getMinutes(t) == t % 60
\* hourOfDay = t.getHours() + t.getMinutes() / 60, kept in minutes (hourOfDay * 60)
HourOfDay(t) == 60 * getHours(t) + getMinutes(t)

\* the hour written on a 12-hour clock
toISOString12h(t) == [day |-> t \div MinutesPerDay, hh |-> (t \div 60) % 12, mm |-> t % 60]

\* Date.prototype.toISOString: the calendar fields of the instant
toISOString(t) == [day |-> t \div MinutesPerDay, hh |-> (t \div 60) % 24, mm |-> t % 60]
\* new Date(isoString)
parseISO(s) == s.day * MinutesPerDay + s.hh * 60 + s.mm

----------------------------------------------------------------------------
(* Shared shapes *)

Ranges == {"24h", "48h", "7d"}
SourceSet == {"wind", "solar", "hydro", "gas", "coal", "biomass", "imports"}

\* a value that may be missing (null, undefined): <<>> or <<v>>
None == <<>>
Some(v) == <<v>>

SumOfMix(m) == m.wind + m.solar + m.hydro + m.gas + m.coal + m.biomass + m.imports

----------------------------------------------------------------------------
(* data/mock.ts *)

\* the factor of coal written 9000 for 900
EMISSION_FACTORS_CoalTypo ==
    [wind |-> 12, solar |-> 50, hydro |-> 24, gas |-> 400, coal |-> 9000,
     biomass |-> 230, imports |-> 300]

EMISSION_FACTORS ==
    [wind |-> 12, solar |-> 50, hydro |-> 24, gas |-> 400, coal |-> 900,
     biomass |-> 230, imports |-> 300]

getRangeHours(r) ==
    IF r = "24h" THEN 24
    ELSE IF r = "48h" THEN 48
    ELSE 24 * 7

clamp(value, min, max) == MathMax(min, MathMin(max, value))

\* raw.k ?? 0
OrZero(rawMix, k) == IF k \in DOMAIN rawMix THEN rawMix[k] ELSE 0

FallbackMix ==
    [wind |-> Frac(30, 100), solar |-> Frac(5, 100), hydro |-> Frac(5, 100),
     gas |-> Frac(45, 100), coal |-> Frac(5, 100), biomass |-> Frac(5, 100),
     imports |-> Frac(5, 100)]

\* the fallback taken only for a total of exactly 0 (total === 0)
normalizeMixZeroOnly(rawMix) ==
    LET base  == [k \in SourceSet |-> OrZero(rawMix, k)]
        total == SumOfMix(base)
    IN  IF total = 0
        THEN FallbackMix
        ELSE [k \in SourceSet |-> IF total > 0 THEN Div(base[k], total)
                                  ELSE 0 - Div(base[k], 0 - total)]

\* only the fields the caller passed are divided (no "?? 0" base record)
normalizeMixPresentOnly(rawMix) ==
    LET base  == [k \in SourceSet |-> OrZero(rawMix, k)]
        total == SumOfMix(base)
    IN  IF total <= 0
        THEN FallbackMix
        ELSE [k \in DOMAIN rawMix |-> Div(rawMix[k], total)]

\* the total taken over six fields, imports left out
normalizeMixShortTotal(rawMix) ==
    LET base  == [k \in SourceSet |-> OrZero(rawMix, k)]
        total == SumOfMix(base) - base.imports
    IN  IF total <= 0
        THEN FallbackMix
        ELSE [k \in SourceSet |-> Div(base[k], total)]

normalizeMix(rawMix) ==
    LET base  == [k \in SourceSet |-> OrZero(rawMix, k)]
        total == SumOfMix(base)
    IN  IF total <= 0
        THEN FallbackMix
        ELSE [k \in SourceSet |-> Div(base[k], total)]

\* Math.floor in place of Math.round
computeIntensityFloor(m) ==
    LET total == m.wind * EMISSION_FACTORS.wind + m.solar * EMISSION_FACTORS.solar
                 + m.hydro * EMISSION_FACTORS.hydro + m.gas * EMISSION_FACTORS.gas
                 + m.coal * EMISSION_FACTORS.coal + m.biomass * EMISSION_FACTORS.biomass
                 + m.imports * EMISSION_FACTORS.imports
    IN  total \div SCALE

computeIntensity(m) ==
    LET total == m.wind * EMISSION_FACTORS.wind + m.solar * EMISSION_FACTORS.solar
                 + m.hydro * EMISSION_FACTORS.hydro + m.gas * EMISSION_FACTORS.gas
                 + m.coal * EMISSION_FACTORS.coal + m.biomass * EMISSION_FACTORS.biomass
                 + m.imports * EMISSION_FACTORS.imports
    IN  MathRound(total)

MockStepMinutes(r) == IF r = "7d" THEN 30 ELSE 15
MockPoints(r) == (getRangeHours(r) * 60) \div MockStepMinutes(r)

\* the timestamp of sample i of the loop
MockTime(r, nw, i) == addMinutes(subHours(nw, getRangeHours(r)), i * MockStepMinutes(r))

\* the shares of one turn of the loop; hourOfDay is in minutes, i is the loop index
MockWind(hourOfDay) ==
    LET dayFactor == MathSin(hourOfDay - 3 * 60, MinutesPerDay)
    IN  clamp(Frac(35, 100) + Mul(Frac(2, 10), dayFactor), Frac(1, 10), Frac(75, 100))

\* daylight taken to start at 05:00
MockSolarEarly(hourOfDay) ==
    LET solarBase == MathMax(0, MathSin(hourOfDay - 5 * 60, 2 * 12 * 60))
    IN  clamp(Mul(Frac(18, 100), solarBase), 0, Frac(25, 100))

MockSolar(hourOfDay) ==
    LET solarBase == MathMax(0, MathSin(hourOfDay - 6 * 60, 2 * 12 * 60))
    IN  clamp(Mul(Frac(18, 100), solarBase), 0, Frac(25, 100))

\* the swing of hydro written 0.2 for 0.02
MockHydroWideSwing(i, points) == Frac(5, 100) + Mul(Frac(2, 10), MathSin(7 * i, points))

MockHydro(i, points) == Frac(5, 100) + Mul(Frac(2, 100), MathSin(7 * i, points))
MockCoal(i, points) == Frac(4, 100) + Mul(Frac(1, 100), MathSin(3 * i, points))
MockBiomass == Frac(5, 100)

\* the balancing term of gas left as computed, the clamp of the next line dropped
MockGasUnclamped(hourOfDay, wind, solar) ==
    Frac(4, 10) + Mul(Frac(1, 10), MathCos(hourOfDay, MinutesPerDay))
    - (wind + solar - Frac(3, 10))

MockGas(hourOfDay, wind, solar) ==
    clamp(Frac(4, 10) + Mul(Frac(1, 10), MathCos(hourOfDay, MinutesPerDay))
          - (wind + solar - Frac(3, 10)),
          Frac(5, 100), Frac(7, 10))

MockImports(wind, solar, hydro, gas, coal, biomass) ==
    clamp(SCALE - (wind + solar + hydro + gas + coal + biomass), Frac(2, 100), Frac(2, 10))

\* the raw shares of sample i, before normalizeMix
MockRaw(r, nw, i) ==
    LET points    == MockPoints(r)
        hourOfDay == HourOfDay(MockTime(r, nw, i))
        wind      == MockWind(hourOfDay)
        solar     == MockSolar(hourOfDay)
        hydro     == MockHydro(i, points)
        coal      == MockCoal(i, points)
        biomass   == MockBiomass
        gas       == MockGas(hourOfDay, wind, solar)
        imports   == MockImports(wind, solar, hydro, gas, coal, biomass)
    IN  [wind |-> wind, solar |-> solar, hydro |-> hydro, gas |-> gas, coal |-> coal,
         biomass |-> biomass, imports |-> imports]

\* one turn of the loop after its shares are computed: normalizeMix, computeIntensity
MockSample(t, m) == [t |-> t, mix |-> m, ci |-> computeIntensity(m)]

\* the loop stopping one turn early (i < points)
MockLoopExclusive(r, nw) ==
    [k \in 1 .. MockPoints(r) |->
        MockSample(MockTime(r, nw, k - 1), normalizeMix(MockRaw(r, nw, k - 1)))]

\* the loop of generateMockSeries: i = 0 .. points, one push to each array per turn
MockLoop(r, nw) ==
    [k \in 1 .. (MockPoints(r) + 1) |->
        MockSample(MockTime(r, nw, k - 1), normalizeMix(MockRaw(r, nw, k - 1)))]

\* the two arrays the turns push to: intensity and generation
SeriesOf(samples) ==
    [intensity  |-> [k \in DOMAIN samples |->
                        [timestamp |-> samples[k].t, gramsCO2PerKWh |-> samples[k].ci]],
     generation |-> [k \in DOMAIN samples |->
                        [timestamp |-> samples[k].t, mix |-> samples[k].mix]]]

generateMockSeries(r, nw) == SeriesOf(MockLoop(r, nw))

----------------------------------------------------------------------------
(* data/eirgrid.ts *)

EMISSION_FACTORS_EirGrid ==
    [wind |-> 12, solar |-> 50, hydro |-> 24, gas |-> 400, coal |-> 900,
     biomass |-> 230, imports |-> 300]

getRangeHoursEirGrid(r) ==
    IF r = "24h" THEN 24
    ELSE IF r = "48h" THEN 48
    ELSE 24 * 7

FallbackMixEirGrid ==
    [wind |-> Frac(30, 100), solar |-> Frac(5, 100), hydro |-> Frac(5, 100),
     gas |-> Frac(45, 100), coal |-> Frac(5, 100), biomass |-> Frac(5, 100),
     imports |-> Frac(5, 100)]

normalizeMixEirGrid(rawMix) ==
    LET base  == [k \in SourceSet |-> OrZero(rawMix, k)]
        total == SumOfMix(base)
    IN  IF total <= 0
        THEN FallbackMixEirGrid
        ELSE [k \in SourceSet |-> Div(base[k], total)]

computeIntensityEirGrid(m) ==
    LET total == m.wind * EMISSION_FACTORS_EirGrid.wind + m.solar * EMISSION_FACTORS_EirGrid.solar
                 + m.hydro * EMISSION_FACTORS_EirGrid.hydro + m.gas * EMISSION_FACTORS_EirGrid.gas
                 + m.coal * EMISSION_FACTORS_EirGrid.coal + m.biomass * EMISSION_FACTORS_EirGrid.biomass
                 + m.imports * EMISSION_FACTORS_EirGrid.imports
    IN  MathRound(total)

IrishStepMinutes(r) == IF r = "7d" THEN 30 ELSE 15
IrishPoints(r) == (getRangeHoursEirGrid(r) * 60) \div IrishStepMinutes(r)

IrishTime(r, nw, i) ==
    addMinutes(subHours(nw, getRangeHoursEirGrid(r)), i * IrishStepMinutes(r))

IrishWind(hourOfDay) ==
    LET windBase      == Frac(4, 10)
        windVariation == Mul(MathSin(hourOfDay - 2 * 60, MinutesPerDay), Frac(3, 10))
    IN  MathMax(Frac(1, 10), MathMin(Frac(8, 10), windBase + windVariation))

IrishSolar(hourOfDay) ==
    LET solarBase == MathMax(0, MathSin(hourOfDay - 6 * 60, 2 * 12 * 60))
    IN  MathMax(0, MathMin(Frac(15, 100), Mul(Frac(12, 100), solarBase)))

IrishHydro(i, points) == Frac(8, 100) + Mul(Frac(3, 100), MathSin(7 * i, points))

IrishGas(hourOfDay, wind, solar) ==
    MathMax(Frac(5, 100), MathMin(Frac(6, 10),
        Frac(35, 100) + Mul(Frac(1, 10), MathCos(hourOfDay, MinutesPerDay))
        - (wind + solar - Frac(3, 10))))

IrishCoal(i, points) == Frac(2, 100) + Mul(Frac(1, 100), MathSin(3 * i, points))
IrishBiomass == Frac(6, 100)

\* the lower bound of imports written 0.2 for 0.02
IrishImportsHighFloor(wind, solar, hydro, gas, coal, biomass) ==
    MathMax(Frac(2, 10), MathMin(Frac(15, 100),
        SCALE - (wind + solar + hydro + gas + coal + biomass)))

IrishImports(wind, solar, hydro, gas, coal, biomass) ==
    MathMax(Frac(2, 100), MathMin(Frac(15, 100),
        SCALE - (wind + solar + hydro + gas + coal + biomass)))

\* the shares of sample i computed by generateRealisticIrishData
IrishRaw(r, nw, i) ==
    LET points    == IrishPoints(r)
        hourOfDay == HourOfDay(IrishTime(r, nw, i))
        wind      == IrishWind(hourOfDay)
        solar     == IrishSolar(hourOfDay)
        hydro     == IrishHydro(i, points)
        gas       == IrishGas(hourOfDay, wind, solar)
        coal      == IrishCoal(i, points)
        biomass   == IrishBiomass
        imports   == IrishImports(wind, solar, hydro, gas, coal, biomass)
    IN  [wind |-> wind, solar |-> solar, hydro |-> hydro, gas |-> gas, coal |-> coal,
         biomass |-> biomass, imports |-> imports]

\* dataPoints.push({ timestamp: timestamp.toISOString(), wind, ..., total })
EirGridDataPoint(t, s) ==
    [timestamp |-> toISOString(t),
     wind |-> s.wind, solar |-> s.solar, hydro |-> s.hydro, gas |-> s.gas,
     coal |-> s.coal, biomass |-> s.biomass, imports |-> s.imports,
     total |-> SumOfMix(s)]

\* EirGridDataPoint[]: the loop i = 0 .. points, one push per turn
generateRealisticIrishData(r, nw) ==
    [k \in 1 .. (IrishPoints(r) + 1) |->
        EirGridDataPoint(IrishTime(r, nw, k - 1), IrishRaw(r, nw, k - 1))]

\* the outcome of a call: a value, or an Error with a message
Returned(v) == [outcome |-> "value", value |-> Some(v), reason |-> ""]
Thrown(message) == [outcome |-> "error", value |-> None, reason |-> message]

\* try { return await generateRealisticIrishData(range) } catch (error) { throw error }
fetchEirGridData(r, nw) == Returned(generateRealisticIrishData(r, nw))

\* one turn of "for (const point of rawData)"
EirGridSample(point) ==
    LET m == normalizeMixEirGrid(
                [wind |-> point.wind, solar |-> point.solar, hydro |-> point.hydro,
                 gas |-> point.gas, coal |-> point.coal, biomass |-> point.biomass,
                 imports |-> point.imports])
    IN  [t |-> parseISO(point.timestamp), mix |-> m, ci |-> computeIntensityEirGrid(m)]

\* the two arrays the turns push to
EirGridSeriesOf(samples) ==
    [intensity  |-> [k \in DOMAIN samples |->
                        [timestamp |-> samples[k].t, gramsCO2PerKWh |-> samples[k].ci]],
     generation |-> [k \in DOMAIN samples |->
                        [timestamp |-> samples[k].t, mix |-> samples[k].mix]]]

\* the body of fetchRealEirGridData once "await fetchEirGridData(range)" has settled
AfterFetchEirGridData(got) ==
    IF got.outcome = "error"
    THEN Thrown("Failed to generate Irish electricity data")
    ELSE Returned(EirGridSeriesOf([k \in DOMAIN got.value[1] |-> EirGridSample(got.value[1][k])]))

fetchRealEirGridData(r, nw) == AfterFetchEirGridData(fetchEirGridData(r, nw))

fetchENTSOEData == Thrown("ENTSO-E integration not yet implemented")


----------------------------------------------------------------------------
(* Direct calls of the exported generators: the argument and the clock are *)
(* drawn at the start, each action is one call.                            *)

NoCall == [fn |-> "none", outcome |-> "none", value |-> None, reason |-> ""]
CallOf(name, got) ==
    [fn |-> name, outcome |-> got.outcome, value |-> got.value, reason |-> got.reason]

NormIdle == /\ raw = [k \in {} |-> 0]
            /\ mix = None
            /\ ci = None
            /\ npc = "idle"

AppIdle == /\ dateRange = "24h"
           /\ provider = "Mock (offline)"
           /\ data = None
           /\ loading = TRUE
           /\ error = None
           /\ effectDue = FALSE
           /\ pending = <<>>
           /\ result = None
           /\ apiRet = NoCall

GenIdle == /\ range = "24h"
           /\ now = BaseNow
           /\ ret = NoCall
           /\ prov = "Mock (offline)"

InitGen == /\ range \in Ranges
           /\ now \in Nows
           /\ ret = NoCall
           /\ prov = "Mock (offline)"
           /\ NormIdle
           /\ AppIdle

CallGenerateMockSeries ==
    /\ ret = NoCall
    /\ ret' = CallOf("generateMockSeries", Returned(generateMockSeries(range, now)))
    /\ UNCHANGED <<range, now, prov, normVars, appVars>>

CallFetchRealEirGridData ==
    /\ ret = NoCall
    /\ ret' = CallOf("fetchRealEirGridData", fetchRealEirGridData(range, now))
    /\ UNCHANGED <<range, now, prov, normVars, appVars>>

NextGen == CallGenerateMockSeries \/ CallFetchRealEirGridData

SpecGen == InitGen /\ [][NextGen]_vars

----------------------------------------------------------------------------
(* Properties of the generators, checked under SpecGen *)

\* what the returned series and the raw shares of a finished call are
RetSeries == ret.value[1]
RetRaw(i) == IF ret.fn = "generateMockSeries" THEN MockRaw(range, now, i)
             ELSE IrishRaw(range, now, i)
RetHours == IF ret.fn = "generateMockSeries" THEN getRangeHours(range)
            ELSE getRangeHoursEirGrid(range)
RetStep == IF ret.fn = "generateMockSeries" THEN MockStepMinutes(range)
           ELSE IrishStepMinutes(range)

\* the resolution the specification states: <<totalHours, stepMinutes, points>>
StatedResolution ==
    [r \in Ranges |-> IF r = "24h" THEN <<24, 15, 97>>
                      ELSE IF r = "48h" THEN <<48, 15, 193>>
                      ELSE <<168, 30, 337>>]

\* C1: for every DateRange both generators resolve totalHours to 24, 48, 168 and
\* stepMinutes to 15, 15, 30, and each returned series has exactly
\* totalHours * 60 / stepMinutes + 1 points (97, 193, 337).
C1_PointCount ==
    (ret.outcome = "value") =>
        LET e == StatedResolution[range]
        IN  /\ RetHours = e[1]
            /\ RetStep = e[2]
            /\ e[3] = (e[1] * 60) \div e[2] + 1
            /\ Len(RetSeries.intensity) = e[3]
            /\ Len(RetSeries.generation) = e[3]

C1_Witness ==
    /\ ret.fn = "fetchRealEirGridData"
    /\ range = "7d"
    /\ Len(RetSeries.intensity) = 337
    /\ Len(RetSeries.generation) = 337

\* C2: the timestamps of a generated series are strictly increasing, consecutive
\* ones are exactly stepMinutes apart, the first is now - totalHours and the last
\* is now.
C2_Timestamps ==
    (ret.outcome = "value") =>
        LET e == StatedResolution[range]
            g == RetSeries.generation
            c == RetSeries.intensity
        IN  /\ \A k \in 1 .. (Len(g) - 1) :
                   /\ g[k].timestamp < g[k + 1].timestamp
                   /\ g[k + 1].timestamp - g[k].timestamp = e[2]
            /\ \A k \in 1 .. (Len(c) - 1) :
                   /\ c[k].timestamp < c[k + 1].timestamp
                   /\ c[k + 1].timestamp - c[k].timestamp = e[2]
            /\ g[1].timestamp = now - e[1] * 60
            /\ c[1].timestamp = now - e[1] * 60
            /\ g[Len(g)].timestamp = now
            /\ c[Len(c)].timestamp = now
            /\ g[Len(g)].timestamp - g[1].timestamp = e[1] * 60

C2_Witness ==
    /\ ret.fn = "fetchRealEirGridData"
    /\ range = "48h"
    /\ RetSeries.generation[1].timestamp = now - 48 * 60
    /\ RetSeries.generation[2].timestamp = now - 48 * 60 + 15
    /\ RetSeries.generation[193].timestamp = now

\* C7: in every series of either generator, a sample whose hour of day is before
\* 06:00 or after 18:00 has a solar share of exactly 0, raw and normalised.
C7_SolarZeroAtNight ==
    (ret.outcome = "value") =>
        \A k \in 1 .. Len(RetSeries.generation) :
            LET p == RetSeries.generation[k]
                h == HourOfDay(p.timestamp)
            IN  (h < 6 * 60 \/ h > 18 * 60) =>
                    /\ RetRaw(k - 1).solar = 0
                    /\ p.mix.solar = 0

C7_Witness ==
    /\ ret.outcome = "value"
    /\ \E k \in 1 .. Len(RetSeries.generation) :
           /\ HourOfDay(RetSeries.generation[k].timestamp) = 18 * 60 + 1
           /\ RetSeries.generation[k].mix.solar = 0
    /\ \E k \in 1 .. Len(RetSeries.generation) :
           /\ HourOfDay(RetSeries.generation[k].timestamp) < 6 * 60
           /\ HourOfDay(RetSeries.generation[k].timestamp) > 6 * 60 - 15
           /\ RetSeries.generation[k].mix.solar = 0
    /\ \E k \in 1 .. Len(RetSeries.generation) : RetSeries.generation[k].mix.solar > 0

\* the clamp band of the wind share the specification states for each profile
StatedWindBand ==
    IF ret.fn = "generateMockSeries" THEN <<Frac(1, 10), Frac(75, 100)>>
    ELSE <<Frac(1, 10), Frac(8, 10)>>

\* C8: for every range, sample index and reference instant the wind share of the
\* sample stays inside the clamp band of its profile, [0.1, 0.75] for the mock
\* profile and [0.1, 0.8] for the realistic one; here for the share the loop
\* computes and for the share of the returned (normalised) sample.
C8_WindBand ==
    (ret.outcome = "value") =>
        \A k \in 1 .. Len(RetSeries.generation) :
            /\ RetRaw(k - 1).wind >= StatedWindBand[1]
            /\ RetRaw(k - 1).wind <= StatedWindBand[2]
            /\ RetSeries.generation[k].mix.wind >= StatedWindBand[1]
            /\ RetSeries.generation[k].mix.wind <= StatedWindBand[2]

C8_Witness ==
    /\ ret.fn = "fetchRealEirGridData"
    /\ \E k \in 1 .. Len(RetSeries.generation) : RetRaw(k - 1).wind = Frac(1, 10)
    /\ \E k \in 1 .. Len(RetSeries.generation) :
           /\ RetRaw(k - 1).wind > Frac(1, 10)
           /\ RetSeries.generation[k].mix.wind # RetRaw(k - 1).wind

----------------------------------------------------------------------------
(* Direct uses of normalizeMix and computeIntensity on hand-constructed raw *)
(* mixes: the raw record is drawn at the start, a field is absent or an     *)
(* integer number of units in -1 .. MaxRaw.                                *)

RawValues == (0 - 1) .. MaxRaw
PartialMixes == UNION {[D -> RawValues] : D \in SUBSET SourceSet}

InitNorm == /\ raw \in PartialMixes
            /\ mix = None
            /\ ci = None
            /\ npc = "start"
            /\ GenIdle
            /\ AppIdle

NormalizeMock ==
    /\ npc = "start"
    /\ mix' = Some(normalizeMix(raw))
    /\ npc' = "mock.normalized"
    /\ UNCHANGED <<raw, ci, genVars, appVars>>

IntensityMock ==
    /\ npc = "mock.normalized"
    /\ ci' = Some(computeIntensity(mix[1]))
    /\ npc' = "mock.done"
    /\ UNCHANGED <<raw, mix, genVars, appVars>>

NormalizeEirGrid ==
    /\ npc = "start"
    /\ mix' = Some(normalizeMixEirGrid(raw))
    /\ npc' = "eirgrid.normalized"
    /\ UNCHANGED <<raw, ci, genVars, appVars>>

IntensityEirGrid ==
    /\ npc = "eirgrid.normalized"
    /\ ci' = Some(computeIntensityEirGrid(mix[1]))
    /\ npc' = "eirgrid.done"
    /\ UNCHANGED <<raw, mix, genVars, appVars>>

NextNorm == NormalizeMock \/ IntensityMock \/ NormalizeEirGrid \/ IntensityEirGrid

SpecNorm == InitNorm /\ [][NextNorm]_vars

----------------------------------------------------------------------------
(* Properties of normalizeMix and computeIntensity, checked under SpecNorm *)

Normalized == npc \in {"mock.normalized", "eirgrid.normalized", "mock.done", "eirgrid.done"}
Computed == npc \in {"mock.done", "eirgrid.done"}

\* the sum of the seven raw fields, an absent field counted as 0
RawTotal == LET f(k) == IF k \in DOMAIN raw THEN raw[k] ELSE 0
            IN  f("wind") + f("solar") + f("hydro") + f("gas") + f("coal")
                + f("biomass") + f("imports")

\* the fallback distribution and the emission factors the specification states
StatedFallback ==
    [wind |-> Frac(30, 100), solar |-> Frac(5, 100), hydro |-> Frac(5, 100),
     gas |-> Frac(45, 100), coal |-> Frac(5, 100), biomass |-> Frac(5, 100),
     imports |-> Frac(5, 100)]
StatedFactors ==
    [wind |-> 12, solar |-> 50, hydro |-> 24, gas |-> 400, coal |-> 900,
     biomass |-> 230, imports |-> 300]

\* one unit of rounding per field
Tolerance == Cardinality(SourceSet)
Abs(x) == IF x >= 0 THEN x ELSE 0 - x

\* C3: for every raw seven-tuple (absent fields counted as 0, any total, also
\* totals <= 0) the seven fields of the mix normalizeMix returns sum to 1 within
\* the tolerance of the arithmetic.
C3_SumsToOne ==
    Normalized =>
        /\ DOMAIN mix[1] = SourceSet
        /\ Abs(SumOfMix(mix[1]) - SCALE) <= Tolerance

C3_Witness ==
    /\ Normalized
    /\ raw = [wind |-> 1, gas |-> 2, coal |-> 0 - 1, imports |-> 1]
    /\ SumOfMix(mix[1]) # SCALE
    /\ Abs(SumOfMix(mix[1]) - SCALE) <= Tolerance

\* C4: whenever the sum of the seven raw fields is <= 0 (the all-zero mix, the
\* empty record, negative totals) normalizeMix returns exactly the fallback
\* distribution, as a value; whenever the sum is > 0 it returns each field
\* divided by the sum.
C4_FallbackOrQuotient ==
    Normalized =>
        /\ Len(mix) = 1
        /\ (RawTotal <= 0) => (mix[1] = StatedFallback)
        /\ (RawTotal > 0) =>
               \A k \in SourceSet :
                   mix[1][k] = (((IF k \in DOMAIN raw THEN raw[k] ELSE 0) * SCALE) \div RawTotal)

C4_Witness ==
    /\ Normalized
    /\ raw = [wind |-> 0 - 1, solar |-> 0 - 1, gas |-> 1]
    /\ RawTotal < 0
    /\ mix[1] = StatedFallback

\* C5: for every raw mix whose present fields are all non-negative the returned
\* mix has all seven fields and each of them is >= 0 and <= 1.
C5_PopulatedNonNegative ==
    (Normalized /\ \A k \in DOMAIN raw : raw[k] >= 0) =>
        /\ DOMAIN mix[1] = SourceSet
        /\ \A k \in SourceSet : mix[1][k] >= 0 /\ mix[1][k] <= SCALE

C5_Witness ==
    /\ Normalized
    /\ raw = [wind |-> 2, coal |-> 1]
    /\ DOMAIN mix[1] = SourceSet
    /\ mix[1].wind > mix[1].coal
    /\ mix[1].gas = 0

\* C6: for every normalised mix (seven non-negative shares) computeIntensity
\* returns round(sum over the sources of share * emission factor) with factors
\* wind 12, solar 50, hydro 24, gas 400, coal 900, biomass 230, imports 300; the
\* result is a non-negative integer, and for the fallback distribution it is 259.
C6_Intensity ==
    (Computed /\ \A k \in SourceSet : mix[1][k] >= 0) =>
        LET m == mix[1]
            weighted == m.wind * StatedFactors.wind + m.solar * StatedFactors.solar
                        + m.hydro * StatedFactors.hydro + m.gas * StatedFactors.gas
                        + m.coal * StatedFactors.coal + m.biomass * StatedFactors.biomass
                        + m.imports * StatedFactors.imports
        IN  /\ 2 * SCALE * ci[1] <= 2 * weighted + SCALE
            /\ 2 * SCALE * ci[1] > 2 * weighted - SCALE
            /\ ci[1] \in Nat
            /\ (m = StatedFallback) => (ci[1] = 259)

C6_Witness ==
    /\ Computed
    /\ RawTotal = 0
    /\ mix[1] = StatedFallback
    /\ ci[1] = 259

----------------------------------------------------------------------------
(* App.tsx *)

Providers == {"Mock (offline)", "EirGrid (real-time)", "ENTSO-E (real-time)"}
AppNows == BaseNow .. (BaseNow + MaxAppNow)

\* Math.round(point.gramsCO2PerKWh * factor), the factor in fixed point
ScaleIntensity(grams, factor) == MathRound(grams * factor)

\* the multipliers of the 'EirGrid (real-time)' branch with no division by the new total
EirGridVariantMixScaledOnly(m) ==
    [wind    |-> Mul(m.wind, Frac(13, 10)),
     solar   |-> Mul(m.solar, Frac(12, 10)),
     hydro   |-> m.hydro,
     gas     |-> Mul(m.gas, Frac(9, 10)),
     coal    |-> Mul(m.coal, Frac(5, 10)),
     biomass |-> m.biomass,
     imports |-> Mul(m.imports, Frac(8, 10))]

\* the 'EirGrid (real-time)' branch: multipliers, then division by the new total
EirGridVariantMix(m) ==
    LET modifiedMix == [wind    |-> Mul(m.wind, Frac(13, 10)),
                        solar   |-> Mul(m.solar, Frac(12, 10)),
                        hydro   |-> m.hydro,
                        gas     |-> Mul(m.gas, Frac(9, 10)),
                        coal    |-> Mul(m.coal, Frac(5, 10)),
                        biomass |-> m.biomass,
                        imports |-> Mul(m.imports, Frac(8, 10))]
        total == SumOfMix(modifiedMix)
    IN  [k \in SourceSet |-> Div(modifiedMix[k], total)]

\* the ENTSO-E branch
ENTSOEVariantMix(m) ==
    LET modifiedMix == [wind    |-> Mul(m.wind, Frac(15, 10)),
                        solar   |-> Mul(m.solar, Frac(18, 10)),
                        hydro   |-> Mul(m.hydro, Frac(12, 10)),
                        gas     |-> Mul(m.gas, Frac(7, 10)),
                        coal    |-> Mul(m.coal, Frac(2, 10)),
                        biomass |-> Mul(m.biomass, Frac(13, 10)),
                        imports |-> Mul(m.imports, Frac(6, 10))]
        total == SumOfMix(modifiedMix)
    IN  [k \in SourceSet |-> Div(modifiedMix[k], total)]

\* the branches of generateProviderSpecificData over baseData
ProviderVariant(p, baseData) ==
    IF p = "Mock (offline)" THEN baseData
    ELSE IF p = "EirGrid (real-time)"
    THEN [intensity  |-> [k \in DOMAIN baseData.intensity |->
                            [timestamp |-> baseData.intensity[k].timestamp,
                             gramsCO2PerKWh |->
                                ScaleIntensity(baseData.intensity[k].gramsCO2PerKWh, Frac(8, 10))]],
          generation |-> [k \in DOMAIN baseData.generation |->
                            [timestamp |-> baseData.generation[k].timestamp,
                             mix |-> EirGridVariantMix(baseData.generation[k].mix)]]]
    ELSE [intensity  |-> [k \in DOMAIN baseData.intensity |->
                            [timestamp |-> baseData.intensity[k].timestamp,
                             gramsCO2PerKWh |->
                                ScaleIntensity(baseData.intensity[k].gramsCO2PerKWh, Frac(6, 10))]],
          generation |-> [k \in DOMAIN baseData.generation |->
                            [timestamp |-> baseData.generation[k].timestamp,
                             mix |-> ENTSOEVariantMix(baseData.generation[k].mix)]]]

generateProviderSpecificData(p, r, nw) == ProviderVariant(p, generateMockSeries(r, nw))

\* every provider handed to generateProviderSpecificData, the third one too
TryBlockAnyProvider(p, r, nw) ==
    IF p = "EirGrid (real-time)" THEN fetchRealEirGridData(r, nw)
    ELSE Returned(generateProviderSpecificData(p, r, nw))

\* the try block of fetchData up to the assignment of result
TryBlock(p, r, nw) ==
    IF p = "Mock (offline)" THEN Returned(generateProviderSpecificData(p, r, nw))
    ELSE IF p = "EirGrid (real-time)" THEN fetchRealEirGridData(r, nw)
    ELSE Thrown("ENTSO-E integration requires API key setup")

\* the fallback of the catch block taken for the default range
CatchFallbackDefaultRange(r, nw) == generateProviderSpecificData("Mock (offline)", "24h", nw)

\* the catch block: const fallbackData = generateProviderSpecificData('Mock (offline)', dateRange)
CatchFallback(r, nw) == generateProviderSpecificData("Mock (offline)", r, nw)

\* a catch block that records the error and clears the data instead of falling back
SettleBlank(got, r, nw) ==
    /\ IF got.outcome = "value"
       THEN /\ result' = got.value
            /\ data' = got.value
            /\ error' = None
       ELSE /\ result' = None
            /\ error' = Some(got.reason)
            /\ data' = None
    /\ loading' = FALSE

\* setData(result), or the catch block, then finally setLoading(false); r is the
\* dateRange the pass closed over
Settle(got, r, nw) ==
    /\ IF got.outcome = "value"
       THEN /\ result' = got.value
            /\ data' = got.value
            /\ error' = None
       ELSE /\ result' = None
            /\ error' = Some(got.reason)
            /\ data' = Some(CatchFallback(r, nw))
    /\ loading' = FALSE

\* the effect of [dateRange, provider] running fetchData to its end: the mock
\* provider and the third provider have no await on their path
FetchDataSync(nw) ==
    /\ effectDue
    /\ provider # "EirGrid (real-time)"
    /\ Settle(TryBlock(provider, dateRange, nw), dateRange, nw)
    /\ effectDue' = FALSE
    /\ UNCHANGED <<dateRange, provider, pending, apiRet, genVars, normVars>>

\* fetchData up to "await fetchRealEirGridData(dateRange)": the clock is read and
\* the series built inside the call, the pass is suspended on its promise
FetchDataAwait(nw) ==
    /\ effectDue
    /\ provider = "EirGrid (real-time)"
    /\ loading' = TRUE
    /\ error' = None
    /\ result' = None
    /\ pending' = Append(pending, [range |-> dateRange, got |-> TryBlock(provider, dateRange, nw)])
    /\ effectDue' = FALSE
    /\ UNCHANGED <<dateRange, provider, data, apiRet, genVars, normVars>>

\* the suspended pass resumed with the outcome of its promise
FetchDataResume(nw) ==
    /\ pending # <<>>
    /\ IF Head(pending).got.outcome = "value"
       THEN /\ result' = Head(pending).got.value
            /\ data' = Head(pending).got.value
            /\ UNCHANGED error
       ELSE /\ result' = None
            /\ error' = Some(Head(pending).got.reason)
            /\ data' = Some(CatchFallback(Head(pending).range, nw))
    /\ loading' = FALSE
    /\ pending' = Tail(pending)
    /\ UNCHANGED <<dateRange, provider, effectDue, apiRet, genVars, normVars>>

\* onChange of the date range select (disabled while loading); the effect of a
\* change runs before the next event is handled
ChangeDateRange(r) ==
    /\ ~loading
    /\ ~effectDue
    /\ r # dateRange
    /\ dateRange' = r
    /\ effectDue' = TRUE
    /\ UNCHANGED <<provider, data, loading, error, pending, result, apiRet, genVars, normVars>>

\* the data source select left enabled while a pass is loading
ChangeProviderWhileLoading(p) ==
    /\ ~effectDue
    /\ p # provider
    /\ provider' = p
    /\ effectDue' = TRUE
    /\ UNCHANGED <<dateRange, data, loading, error, pending, result, apiRet, genVars, normVars>>

\* onChange of the data source select (disabled while loading)
ChangeProvider(p) ==
    /\ ~loading
    /\ ~effectDue
    /\ p # provider
    /\ provider' = p
    /\ effectDue' = TRUE
    /\ UNCHANGED <<dateRange, data, loading, error, pending, result, apiRet, genVars, normVars>>

\* a direct call of the exported fetchENTSOEData
CallFetchENTSOEData ==
    /\ apiRet = NoCall
    /\ apiRet' = CallOf("fetchENTSOEData", fetchENTSOEData)
    /\ UNCHANGED <<dateRange, provider, data, loading, error, effectDue, pending, result,
                   genVars, normVars>>

\* the first render: the useState defaults, the effect due once after mount
Init == /\ dateRange = "24h"
        /\ provider = "Mock (offline)"
        /\ data = None
        /\ loading = TRUE
        /\ error = None
        /\ effectDue = TRUE
        /\ pending = <<>>
        /\ result = None
        /\ apiRet = NoCall
        /\ GenIdle
        /\ NormIdle

Next == \/ \E nw \in AppNows : FetchDataSync(nw)
        \/ \E nw \in AppNows : FetchDataAwait(nw)
        \/ \E nw \in AppNows : FetchDataResume(nw)
        \/ \E r \in Ranges : ChangeDateRange(r)
        \/ \E p \in Providers : ChangeProvider(p)
        \/ CallFetchENTSOEData

Spec == Init /\ [][Next]_vars

\* the step of a pass as the scheduler sees it: the effect that was due has run
\* fetchData (to its end, or to its await), whatever it wrote
EffectRuns == effectDue /\ effectDue' = FALSE

\* the oldest suspended pass has been resumed, whatever it wrote
PromiseResumes == pending # <<>> /\ pending' = Tail(pending)

\* The effect of a render is run by React once the render is committed, and a
\* pass suspended on an already settled promise is resumed by the microtask
\* queue: neither waits for the user, so each is weakly fair.  The user's
\* changes are not.  The steps of Next that are EffectRuns steps are those of
\* FetchDataSync and FetchDataAwait, the PromiseResumes steps are those of
\* FetchDataResume, and each is enabled exactly when those actions are.
SpecLive == /\ Spec
            /\ WF_effectDue(EffectRuns)
            /\ WF_pending(PromiseResumes)

----------------------------------------------------------------------------
(* Properties of the App's generation passes, checked under Spec *)

\* no pass is due, suspended or running: the last started pass has ended
PassEnded == ~effectDue /\ pending = <<>> /\ ~loading

\* C9: requesting the unimplemented third provider (a call of fetchENTSOEData,
\* or a pass of the App with 'ENTSO-E (real-time)' selected) always fails with
\* an error at once and with no partial result: the call rejects without a
\* value, the pass is never suspended, its result is never assigned and the
\* error is set.
C9_StubFails ==
    /\ (apiRet.fn = "fetchENTSOEData") =>
           /\ apiRet.outcome = "error"
           /\ apiRet.value = None
           /\ apiRet.reason = "ENTSO-E integration not yet implemented"
    /\ (provider = "ENTSO-E (real-time)") => (pending = <<>>)
    /\ (provider = "ENTSO-E (real-time)" /\ ~effectDue) =>
           /\ result = None
           /\ error = Some("ENTSO-E integration requires API key setup")
           /\ ~loading

C9_Witness ==
    /\ apiRet.fn = "fetchENTSOEData"
    /\ apiRet.outcome = "error"
    /\ provider = "ENTSO-E (real-time)"
    /\ dateRange = "48h"
    /\ PassEnded
    /\ result = None
    /\ error # None

\* C10: whenever a generation pass fails (always for the stub provider) the
\* failure is caught and the pass falls back to the mock generation path with
\* the range that was requested: after the pass data is the mock series of the
\* selected range and error holds the failure message; when the pass succeeds
\* error is null.
C10_FallbackToMock ==
    PassEnded =>
        /\ (provider = "ENTSO-E (real-time)") => (error # None)
        /\ (provider # "ENTSO-E (real-time)") => (error = None /\ data = result /\ data # None)
        /\ (error # None) =>
               /\ error = Some("ENTSO-E integration requires API key setup")
               /\ \E nw \in AppNows : data = Some(generateMockSeries(dateRange, nw))

C10_Witness ==
    /\ PassEnded
    /\ provider = "ENTSO-E (real-time)"
    /\ dateRange = "7d"
    /\ error = Some("ENTSO-E integration requires API key setup")
    /\ data = Some(generateMockSeries("7d", BaseNow))

----------------------------------------------------------------------------
(* Direct calls of generateProviderSpecificData next to the two generators: *)
(* the provider, the range and the clock are drawn at the start, each       *)
(* action is one call.                                                      *)

InitCalls == /\ range \in Ranges
             /\ now \in Nows
             /\ prov \in Providers
             /\ ret = NoCall
             /\ NormIdle
             /\ AppIdle

CallGenerateProviderSpecificData ==
    /\ ret = NoCall
    /\ ret' = CallOf("generateProviderSpecificData",
                     Returned(generateProviderSpecificData(prov, range, now)))
    /\ UNCHANGED <<range, now, prov, normVars, appVars>>

NextCalls == \/ CallGenerateProviderSpecificData
             \/ CallGenerateMockSeries
             \/ CallFetchRealEirGridData

SpecCalls == InitCalls /\ [][NextCalls]_vars

----------------------------------------------------------------------------
(* Properties of the returned series, checked under SpecCalls *)

\* the multipliers of the two variant branches, in source order of the fields
VariantFactors(p) ==
    IF p = "EirGrid (real-time)"
    THEN [wind |-> <<13, 10>>, solar |-> <<12, 10>>, hydro |-> <<1, 1>>, gas |-> <<9, 10>>,
          coal |-> <<5, 10>>, biomass |-> <<1, 1>>, imports |-> <<8, 10>>]
    ELSE [wind |-> <<15, 10>>, solar |-> <<18, 10>>, hydro |-> <<12, 10>>, gas |-> <<7, 10>>,
          coal |-> <<2, 10>>, biomass |-> <<13, 10>>, imports |-> <<6, 10>>]

\* the transform applied once more with the reciprocal multipliers of provider p
InverseVariantMix(p, m) ==
    LET modifiedMix == [k \in SourceSet |->
                          Mul(m[k], Frac(VariantFactors(p)[k][2], VariantFactors(p)[k][1]))]
        total == SumOfMix(modifiedMix)
    IN  [k \in SourceSet |-> Div(modifiedMix[k], total)]

SumsToOne(m) == Abs(SumOfMix(m) - SCALE) <= Tolerance

VariantCall == ret.fn = "generateProviderSpecificData" /\ prov # "Mock (offline)"

\* C11: the mix of every point returned by the 'EirGrid (real-time)' and the
\* ENTSO-E branch of generateProviderSpecificData has seven fields that sum
\* to 1 (within one rounding unit per field), for every range; and so has the
\* mix obtained by applying the transform a second time with the reciprocal
\* multipliers.
C11_VariantSumsToOne ==
    VariantCall =>
        \A k \in DOMAIN RetSeries.generation :
            /\ SumsToOne(RetSeries.generation[k].mix)
            /\ SumsToOne(InverseVariantMix(prov, RetSeries.generation[k].mix))

\* a 7d call of a variant branch whose first point has more wind and less coal
\* than the base point
C11_Witness ==
    /\ VariantCall
    /\ range = "7d"
    /\ Len(RetSeries.generation) = 337
    /\ RetSeries.generation[1].mix.wind > generateMockSeries(range, now).generation[1].mix.wind
    /\ RetSeries.generation[1].mix.coal < generateMockSeries(range, now).generation[1].mix.coal
    /\ SumsToOne(RetSeries.generation[1].mix)

\* the intensity calculator of the module the called function lives in
RetIntensityOf(m) == IF ret.fn = "fetchRealEirGridData" THEN computeIntensityEirGrid(m)
                     ELSE computeIntensity(m)

\* C12: every result returned by generateMockSeries, fetchRealEirGridData and
\* generateProviderSpecificData (any provider) is two sequences of equal
\* length with the same timestamp at every index, and the intensity at index
\* k is the intensity calculator applied to the mix at index k.
C12_ParallelAndIntensity ==
    (ret.outcome = "value") =>
        /\ Len(RetSeries.intensity) = Len(RetSeries.generation)
        /\ \A k \in DOMAIN RetSeries.intensity :
               /\ RetSeries.intensity[k].timestamp = RetSeries.generation[k].timestamp
               /\ RetSeries.intensity[k].gramsCO2PerKWh
                      = RetIntensityOf(RetSeries.generation[k].mix)

----------------------------------------------------------------------------
(* Properties of sequences of passes, checked under Spec and SpecLive *)

\* every started pass has run to its end
AllPassesCompleted == ~effectDue /\ pending = <<>>

\* a series with at least one intensity point and one mix point
NonEmptySeries(d) == d # None /\ Len(d[1].intensity) > 0 /\ Len(d[1].generation) > 0

\* C13: last result wins.  After any sequence of range and provider changes,
\* once every started pass has completed, loading is false and data and error
\* are what the pass for the currently selected (dateRange, provider) pair
\* writes: the mock series of that range and no error for the mock provider,
\* the realistic series of that range and no error for the EirGrid provider,
\* the mock fallback of that range and the failure message for ENTSO-E.
C13_LastResultWins ==
    AllPassesCompleted =>
        /\ ~loading
        /\ (provider = "Mock (offline)") =>
               /\ error = None
               /\ \E nw \in AppNows : data = Some(generateMockSeries(dateRange, nw))
        /\ (provider = "EirGrid (real-time)") =>
               /\ error = None
               /\ \E nw \in AppNows : data = fetchRealEirGridData(dateRange, nw).value
        /\ (provider = "ENTSO-E (real-time)") =>
               /\ error = Some("ENTSO-E integration requires API key setup")
               /\ \E nw \in AppNows : data = Some(generateMockSeries(dateRange, nw))

\* both selects changed away from their defaults, the asynchronous pass of the
\* last selection resumed and its series displayed
C13_Witness ==
    /\ AllPassesCompleted
    /\ ~loading
    /\ provider = "EirGrid (real-time)"
    /\ dateRange = "7d"
    /\ error = None
    /\ data = fetchRealEirGridData("7d", BaseNow + 1).value
    /\ data # Some(generateMockSeries("7d", BaseNow + 1))

\* C14: every generation pass the App starts comes to its end, with loading
\* false and data a non-empty series, for every provider and range; and
\* whenever no pass is due or suspended data is neither null nor empty.
C14_PassTerminatesWithData ==
    /\ (effectDue \/ pending # <<>>) ~> (PassEnded /\ NonEmptySeries(data))
    /\ [](AllPassesCompleted => (~loading /\ NonEmptySeries(data)))

\* a failed pass of the 48h range ended with the fallback series on display
C14_Witness ==
    /\ PassEnded
    /\ provider = "ENTSO-E (real-time)"
    /\ dateRange = "48h"
    /\ error # None
    /\ NonEmptySeries(data)
    /\ Len(data[1].intensity) = 193

----------------------------------------------------------------------------
(* Properties of the raw shares of the generators, checked under SpecGen *)

\* the clamp bands the specification states for gas and imports: <<min, max>>
StatedGasBand ==
    IF ret.fn = "generateMockSeries" THEN <<Frac(5, 100), Frac(7, 10)>>
    ELSE <<Frac(5, 100), Frac(6, 10)>>
StatedImportsBand ==
    IF ret.fn = "generateMockSeries" THEN <<Frac(2, 100), Frac(2, 10)>>
    ELSE <<Frac(2, 100), Frac(15, 100)>>

\* 1 minus the sum of the other six raw shares
ImportsResidual(s) == SCALE - (s.wind + s.solar + s.hydro + s.gas + s.coal + s.biomass)

\* C15: for every sample of every range the raw gas share lies in its clamp
\* band ([0.05, 0.7] mock, [0.05, 0.6] realistic), and the raw imports share is
\* 1 minus the sum of the other six shares brought into its clamp band
\* ([0.02, 0.2] mock, [0.02, 0.15] realistic).
C15_GasAndImportsBands ==
    (ret.outcome = "value") =>
        \A k \in 1 .. Len(RetSeries.generation) :
            /\ RetRaw(k - 1).gas >= StatedGasBand[1]
            /\ RetRaw(k - 1).gas <= StatedGasBand[2]
            /\ RetRaw(k - 1).imports >= StatedImportsBand[1]
            /\ RetRaw(k - 1).imports <= StatedImportsBand[2]
            /\ RetRaw(k - 1).imports
                  = MathMax(StatedImportsBand[1],
                            MathMin(StatedImportsBand[2], ImportsResidual(RetRaw(k - 1))))

\* a mock series with gas on the lower edge of its band at one sample and
\* imports on the upper edge of its band at another
C15_Witness ==
    /\ ret.fn = "generateMockSeries"
    /\ \E k \in 1 .. Len(RetSeries.generation) : RetRaw(k - 1).gas = Frac(5, 100)
    /\ \E k \in 1 .. Len(RetSeries.generation) : RetRaw(k - 1).imports = Frac(2, 10)
    /\ \E k \in 1 .. Len(RetSeries.generation) :
           /\ RetRaw(k - 1).imports > Frac(2, 100)
           /\ RetRaw(k - 1).imports < Frac(2, 10)

\* C16: for every sample of either generator wind, hydro, gas, coal, biomass
\* and imports are strictly positive and solar is at least 0, so the total
\* before normalisation is strictly positive and the returned mix is the raw
\* shares divided by that total, never the fallback distribution.
C16_RawSharesPositive ==
    (ret.outcome = "value") =>
        \A k \in 1 .. Len(RetSeries.generation) :
            /\ \A key \in SourceSet \ {"solar"} : RetRaw(k - 1)[key] > 0
            /\ RetRaw(k - 1).solar >= 0
            /\ SumOfMix(RetRaw(k - 1)) > 0
            /\ RetSeries.generation[k].mix
                  = [key \in SourceSet |-> Div(RetRaw(k - 1)[key], SumOfMix(RetRaw(k - 1)))]
            /\ RetSeries.generation[k].mix # StatedFallback

\* a realistic series with solar 0 at one sample, positive at another, and a
\* total different from 1
C16_Witness ==
    /\ ret.fn = "fetchRealEirGridData"
    /\ ret.outcome = "value"
    /\ \E k \in 1 .. Len(RetSeries.generation) : RetRaw(k - 1).solar = 0
    /\ \E k \in 1 .. Len(RetSeries.generation) : RetRaw(k - 1).solar > 0
    /\ \E k \in 1 .. Len(RetSeries.generation) : SumOfMix(RetRaw(k - 1)) < SCALE

----------------------------------------------------------------------------
(* The normaliser and calculator used directly, next to the generators that *)
(* use them: a run is either one use of normalizeMix and computeIntensity   *)
(* on a hand-made record, or one call of a generator.                       *)

InitPipeline == InitNorm \/ InitGen

NextPipeline == \/ NextNorm
                \/ (npc = "idle" /\ CallGenerateMockSeries)
                \/ (npc = "idle" /\ CallFetchRealEirGridData)

SpecPipeline == InitPipeline /\ [][NextPipeline]_vars

\* C17: for every mix whose seven shares are non-negative and sum to 1,
\* computeIntensity returns a value from 12 (the smallest emission factor) to
\* 900 (the largest); and every intensity point returned by either generator
\* lies in [12, 900].
C17_IntensityRange ==
    /\ (Computed /\ SumsToOne(mix[1]) /\ \A key \in SourceSet : mix[1][key] >= 0) =>
           (ci[1] >= 12 /\ ci[1] <= 900)
    /\ (ret.outcome = "value") =>
           \A k \in DOMAIN RetSeries.intensity :
               /\ RetSeries.intensity[k].gramsCO2PerKWh >= 12
               /\ RetSeries.intensity[k].gramsCO2PerKWh <= 900

\* a record of coal alone: its mix is all coal and its intensity the largest factor
C17_Witness ==
    /\ Computed
    /\ RawTotal > 0
    /\ mix[1].coal = SCALE
    /\ SumsToOne(mix[1])
    /\ ci[1] = 900

====
